---- MODULE Spec2Model ----
(***************************************************************************)
(* State-machine model of SearchServer (src/search_server3.cpp): an        *)
(* in-memory inverted index with TF-IDF ranking.                           *)
(*                                                                         *)
(* Representation.                                                         *)
(*  - A char is its code (an integer); a string is a sequence of chars.    *)
(*  - map<K,V> is a function whose DOMAIN is the key set; set<T> is a set; *)
(*    vector<T> is a sequence.                                             *)
(*  - A term frequency (double) is kept as the pair [num, den]: the code   *)
(*    adds 1.0/den once per occurrence, num times.                         *)
(*  - A relevance (double) is a fixed-point integer in units of 1e-7.      *)
(*  - A thrown exception is the field `error` of the call record `last`    *)
(*    (the message passed to the exception), "" when the call returned.   *)
(***************************************************************************)
EXTENDS Integers, Sequences, FiniteSets, TLC

VARIABLES
    stop_words_,              \* const set<string> stop_words_
    word_to_document_freqs_,  \* map<string, map<int, double>>
    documents_,               \* map<int, DocumentData>
    ids_,                     \* vector<int>
    last,                     \* the last call: its arguments and its outcome
    succ                      \* history: ids of the AddDocument calls that returned

vars == <<stop_words_, word_to_document_freqs_, documents_, ids_, last, succ>>

index == <<stop_words_, word_to_document_freqs_, documents_, ids_>>

(***************************************************************************)
(* Program constants.                                                      *)
(***************************************************************************)
MAX_RESULT_DOCUMENT_COUNT == 5
\* EPSILON = 1e-6, in the relevance unit of 1e-7
EPSILON == 10
\* ' '
SPACE == 32
\* '-'
MINUS == 45

(***************************************************************************)
(* Bounds of the model.                                                    *)
(***************************************************************************)
\* document ids offered by the caller of Spec are -1 .. MaxId
MaxId == 1
\* SpecTop indexes at most MaxTopDocs documents
MaxTopDocs == 6
\* the queries of SpecParse have at most MaxTokens tokens
MaxTokens == 3

EmptyMap == [k \in {} |-> 0]

\* ---------------------------------------------------------------- strings

RECURSIVE SplitFrom(_, _, _, _)
SplitFrom(text, i, word, words) ==
    IF i > Len(text)
    THEN IF word # <<>> THEN Append(words, word) ELSE words
    ELSE IF text[i] = SPACE
         THEN IF word # <<>>
              THEN SplitFrom(text, i + 1, <<>>, Append(words, word))
              ELSE SplitFrom(text, i + 1, word, words)
         ELSE SplitFrom(text, i + 1, Append(word, text[i]), words)

SplitIntoWords(text) == SplitFrom(text, 1, <<>>, <<>>)

MakeUniqueNonEmptyStrings(strings) ==
    {strings[i] : i \in {j \in DOMAIN strings : strings[j] # <<>>}}

\* none_of(word, c >= '\0' && c < ' ')
IsValidWord(word) ==
    ~ \E i \in DOMAIN word : word[i] >= 0 /\ word[i] < SPACE

IsStopWord(word) == word \in stop_words_

\* SplitIntoWordsNoStop without the test !IsStopWord(word) of line 232
SplitIntoWordsKeepingStop(text) ==
    LET all == SplitIntoWords(text) IN
    IF \E i \in DOMAIN all : ~IsValidWord(all[i])
    THEN [threw |-> TRUE, words |-> <<>>]
    ELSE [threw |-> FALSE, words |-> all]

\* the loop throws at the first invalid word, before anything is returned
SplitIntoWordsNoStop(text) ==
    LET all == SplitIntoWords(text) IN
    IF \E i \in DOMAIN all : ~IsValidWord(all[i])
    THEN [threw |-> TRUE, words |-> <<>>]
    ELSE [threw |-> FALSE, words |-> SelectSeq(all, LAMBDA w : ~IsStopWord(w))]

RECURSIVE SumSeq(_)
SumSeq(s) == IF s = <<>> THEN 0 ELSE Head(s) + SumSeq(Tail(s))

\* C++ integer division truncates toward zero (b > 0)
TruncDiv(a, b) == IF a >= 0 THEN a \div b ELSE -((-a) \div b)

ComputeAverageRating(ratings) ==
    IF ratings = <<>> THEN 0 ELSE TruncDiv(SumSeq(ratings), Len(ratings))

\* ------------------------------------------------------------ call record

DocumentStatus == {"ACTUAL", "IRRELEVANT", "BANNED", "REMOVED"}

NoPredicate == [kind |-> "none", status |-> "", n |-> 0]

EmptyQuery == [plus_words |-> {}, minus_words |-> {}, stop_words |-> {}]

\* a call that has returned nothing yet; every field is always present
Blank ==
    [op |-> "", id |-> 0, text |-> <<>>, status |-> "", ratings |-> <<>>,
     pred |-> NoPredicate, error |-> "", parsed |-> FALSE, query |-> EmptyQuery,
     docs |-> <<>>, words |-> <<>>, rstatus |-> "", value |-> 0,
     found |-> <<>>, sorted |-> <<>>]

\* ------------------------------------------------------------ construction

\* SearchServer(const StringContainer&): throws on an invalid stop word
ConstructorThrows(stop_words) ==
    \E i \in DOMAIN stop_words : ~IsValidWord(stop_words[i])

\* ascending order of the keys of a map<int, ...>
RECURSIVE AscendingIds(_)
AscendingIds(S) ==
    IF S = {} THEN <<>>
    ELSE LET m == CHOOSE x \in S : \A y \in S : x <= y
         IN <<m>> \o AscendingIds(S \ {m})

\* ---------------------------------------------------------------- ingestion

GetDocumentCount == Cardinality(DOMAIN documents_)

\* for (word : words) word_to_document_freqs_[word][document_id] += inv_word_count;
RECURSIVE AddWords(_, _, _, _)
AddWords(freqs, document_id, words, i) ==
    IF i > Len(words) THEN freqs
    ELSE LET w == words[i]
             row == IF w \in DOMAIN freqs THEN freqs[w] ELSE EmptyMap
             old == IF document_id \in DOMAIN row THEN row[document_id].num ELSE 0
             row2 == [d \in DOMAIN row \cup {document_id} |->
                        IF d = document_id
                        THEN [num |-> old + 1, den |-> Len(words)]
                        ELSE row[d]]
         IN AddWords([x \in DOMAIN freqs \cup {w} |-> IF x = w THEN row2 ELSE freqs[x]],
                     document_id, words, i + 1)

\* AddDocumentError without the test of line 113
AddDocumentErrorNoNegativeTest(document_id, document) ==
    IF document_id \in DOMAIN documents_ THEN "Document ID is already exist"
    ELSE IF SplitIntoWordsNoStop(document).threw THEN "Invalid word try to add"
    ELSE ""

\* the message of the exception AddDocument throws, "" when it throws none
AddDocumentError(document_id, document) ==
    IF document_id \in DOMAIN documents_ THEN "Document ID is already exist"
    ELSE IF document_id < 0 THEN "Document ID is negative"
    ELSE IF SplitIntoWordsNoStop(document).threw THEN "Invalid word try to add"
    ELSE ""

\* the words SplitIntoWordsNoStop has collected when it throws (all of them when it
\* does not)
WordsBeforeThrow(text) ==
    LET all == SplitIntoWords(text)
        bad == {i \in DOMAIN all : ~IsValidWord(all[i])}
        upto == IF bad = {} THEN Len(all)
                ELSE (CHOOSE i \in bad : \A j \in bad : i <= j) - 1
    IN SelectSeq(SubSeq(all, 1, upto), LAMBDA w : ~IsStopWord(w))

\* AddDocument with each word indexed as soon as it is split off and validated
AddDocumentIndexingWhileSplitting(document_id, document, status, ratings) ==
    LET err == AddDocumentError(document_id, document)
        words == WordsBeforeThrow(document)
        call == [Blank EXCEPT !.op = "AddDocument", !.id = document_id,
                              !.text = document, !.status = status,
                              !.ratings = ratings, !.error = err]
    IN /\ last' = call
       /\ UNCHANGED stop_words_
       /\ IF err \in {"Document ID is already exist", "Document ID is negative"}
          THEN UNCHANGED <<word_to_document_freqs_, documents_, ids_, succ>>
          ELSE /\ word_to_document_freqs_' =
                      AddWords(word_to_document_freqs_, document_id, words, 1)
               /\ IF err # ""
                  THEN UNCHANGED <<documents_, ids_, succ>>
                  ELSE /\ documents_' =
                              [d \in DOMAIN documents_ \cup {document_id} |->
                                  IF d = document_id
                                  THEN [rating |-> ComputeAverageRating(ratings),
                                        status |-> status]
                                  ELSE documents_[d]]
                       /\ ids_' = Append(ids_, document_id)
                       /\ succ' = Append(succ, document_id)

AddDocument(document_id, document, status, ratings) ==
    LET err == AddDocumentError(document_id, document)
        words == SplitIntoWordsNoStop(document).words
        call == [Blank EXCEPT !.op = "AddDocument", !.id = document_id,
                              !.text = document, !.status = status,
                              !.ratings = ratings, !.error = err]
    IN /\ last' = call
       /\ UNCHANGED stop_words_
       /\ IF err # ""
          THEN UNCHANGED <<word_to_document_freqs_, documents_, ids_, succ>>
          ELSE /\ word_to_document_freqs_' =
                      AddWords(word_to_document_freqs_, document_id, words, 1)
               /\ documents_' =
                      [d \in DOMAIN documents_ \cup {document_id} |->
                          IF d = document_id
                          THEN [rating |-> ComputeAverageRating(ratings), status |-> status]
                          ELSE documents_[d]]
               /\ ids_' = Append(ids_, document_id)
               /\ succ' = Append(succ, document_id)

\* GetDocumentId reading the keys of documents_ in order instead of ids_
GetDocumentIdInKeyOrder(idx) ==
    /\ last' = IF idx >= 0 /\ idx < GetDocumentCount
               THEN [Blank EXCEPT !.op = "GetDocumentId", !.id = idx,
                                  !.value = AscendingIds(DOMAIN documents_)[idx + 1]]
               ELSE [Blank EXCEPT !.op = "GetDocumentId", !.id = idx,
                                  !.error = "Wrong index of document"]
    /\ UNCHANGED <<index, succ>>

GetDocumentId(idx) ==
    /\ last' = IF idx >= 0 /\ idx < GetDocumentCount
               THEN [Blank EXCEPT !.op = "GetDocumentId", !.id = idx,
                                  !.value = ids_[idx + 1]]
               ELSE [Blank EXCEPT !.op = "GetDocumentId", !.id = idx,
                                  !.error = "Wrong index of document"]
    /\ UNCHANGED <<index, succ>>

CallGetDocumentCount ==
    /\ last' = [Blank EXCEPT !.op = "GetDocumentCount", !.value = GetDocumentCount]
    /\ UNCHANGED <<index, succ>>

\* ------------------------------------------------------------ query parsing

\* ParseQueryWord with the test of line 263 made before the '-' is stripped
ParseQueryWordTestingBeforeStrip(text) ==
    LET is_minus == text[1] = MINUS
        data == IF is_minus THEN Tail(text) ELSE text
    IN IF text[1] = MINUS \/ ~IsValidWord(text)
       THEN [threw |-> TRUE, data |-> data, is_minus |-> is_minus, is_stop |-> FALSE]
       ELSE [threw |-> FALSE, data |-> data, is_minus |-> is_minus,
             is_stop |-> IsStopWord(data)]

\* ParseQueryWord without the test text[0] == '-' of line 263
ParseQueryWordAllowingDoubleMinus(text) ==
    LET is_minus == text[1] = MINUS
        data == IF is_minus THEN Tail(text) ELSE text
    IN IF data = <<>> \/ ~IsValidWord(data)
       THEN [threw |-> TRUE, data |-> data, is_minus |-> is_minus, is_stop |-> FALSE]
       ELSE [threw |-> FALSE, data |-> data, is_minus |-> is_minus,
             is_stop |-> IsStopWord(data)]

\* text is a token of SplitIntoWords, hence not empty
ParseQueryWord(text) ==
    LET is_minus == text[1] = MINUS
        data == IF is_minus THEN Tail(text) ELSE text
    IN IF data = <<>> \/ data[1] = MINUS \/ ~IsValidWord(data)
       THEN [threw |-> TRUE, data |-> data, is_minus |-> is_minus, is_stop |-> FALSE]
       ELSE [threw |-> FALSE, data |-> data, is_minus |-> is_minus,
             is_stop |-> IsStopWord(data)]

\* the loop of ParseQuery with a stop word kept as a plus or minus word as well
RECURSIVE ParseQueryFromKeepingStopWords(_, _, _)
ParseQueryFromKeepingStopWords(words, i, query) ==
    IF i > Len(words) THEN [threw |-> FALSE, query |-> query]
    ELSE LET word == words[i]
             query_word == ParseQueryWord(word)
             stops == IF query_word.is_stop THEN {word} ELSE {}
         IN IF query_word.threw THEN [threw |-> TRUE, query |-> EmptyQuery]
            ELSE IF query_word.data = <<>> THEN [threw |-> FALSE, query |-> EmptyQuery]
            ELSE IF query_word.is_minus
                 THEN ParseQueryFromKeepingStopWords(words, i + 1,
                          [query EXCEPT !.minus_words = @ \cup {query_word.data},
                                        !.stop_words = @ \cup stops])
                 ELSE ParseQueryFromKeepingStopWords(words, i + 1,
                          [query EXCEPT !.plus_words = @ \cup {query_word.data},
                                        !.stop_words = @ \cup stops])

\* the loop of ParseQuery from word i on, with the query built so far
RECURSIVE ParseQueryFrom(_, _, _)
ParseQueryFrom(words, i, query) ==
    IF i > Len(words) THEN [threw |-> FALSE, query |-> query]
    ELSE LET word == words[i]
             query_word == ParseQueryWord(word)
         IN IF query_word.threw THEN [threw |-> TRUE, query |-> EmptyQuery]
            ELSE IF query_word.data = <<>> THEN [threw |-> FALSE, query |-> EmptyQuery]
            ELSE IF ~query_word.is_stop
                 THEN IF query_word.is_minus
                      THEN ParseQueryFrom(words, i + 1,
                               [query EXCEPT !.minus_words = @ \cup {query_word.data}])
                      ELSE ParseQueryFrom(words, i + 1,
                               [query EXCEPT !.plus_words = @ \cup {query_word.data}])
                 ELSE ParseQueryFrom(words, i + 1,
                          [query EXCEPT !.stop_words = @ \cup {word}])

ParseQuery(text) == ParseQueryFrom(SplitIntoWords(text), 1, EmptyQuery)

\* query.plus_words.empty() && query.minus_words.empty() && !query.stop_words.empty()
IsStopOnlyQuery(query) ==
    query.plus_words = {} /\ query.minus_words = {} /\ query.stop_words # {}

\* ------------------------------------------------------------------ ranking

RECURSIVE Gcd(_, _)
Gcd(a, b) == IF b = 0 THEN a ELSE Gcd(b, a % b)

\* ln(k) in units of 1e-7, rounded
Ln(k) ==
    CASE k = 1 -> 0
      [] k = 2 -> 6931472
      [] k = 3 -> 10986123
      [] k = 4 -> 13862944
      [] k = 5 -> 16094379
      [] k = 6 -> 17917595
      [] k = 7 -> 19459101
      [] k = 8 -> 20794415
      [] k = 9 -> 21972246
      [] k = 10 -> 23025851

\* log(GetDocumentCount() * 1.0 / word_to_document_freqs_.at(word).size())
ComputeWordInverseDocumentFreq(word) ==
    LET n == GetDocumentCount
        d == Cardinality(DOMAIN word_to_document_freqs_[word])
        g == Gcd(n, d)
    IN Ln(n \div g) - Ln(d \div g)

\* the caller's predicate over (document_id, status, rating)
Holds(pred, document_id, status, rating) ==
    CASE pred.kind = "status_eq" -> status = pred.status
      [] pred.kind = "id_gt" -> document_id > pred.n
      [] pred.kind = "rating_ge" -> rating >= pred.n

RECURSIVE SumTermRelevance(_, _)
SumTermRelevance(ws, document_id) ==
    IF ws = {} THEN 0
    ELSE LET w == CHOOSE x \in ws : TRUE
             tf == word_to_document_freqs_[w][document_id]
         IN (tf.num * ComputeWordInverseDocumentFreq(w)) \div tf.den
            + SumTermRelevance(ws \ {w}, document_id)

Posted(word, document_id) ==
    /\ word \in DOMAIN word_to_document_freqs_
    /\ document_id \in DOMAIN word_to_document_freqs_[word]

\* FindAllDocuments without the loop over minus_words (lines 316-323)
FindAllDocumentsKeepingMinus(query, pred) ==
    LET hit == {d \in DOMAIN documents_ :
                   /\ \E w \in query.plus_words : Posted(w, d)
                   /\ Holds(pred, d, documents_[d].status, documents_[d].rating)}
        document_to_relevance ==
            [d \in hit |-> SumTermRelevance({w \in query.plus_words : Posted(w, d)}, d)]
        order == AscendingIds(DOMAIN document_to_relevance)
    IN [i \in DOMAIN order |->
           [id |-> order[i], relevance |-> document_to_relevance[order[i]],
            rating |-> documents_[order[i]].rating]]

FindAllDocuments(query, pred) ==
    LET hit == {d \in DOMAIN documents_ :
                   /\ \E w \in query.plus_words : Posted(w, d)
                   /\ Holds(pred, d, documents_[d].status, documents_[d].rating)}
        erased == {d \in hit : \E w \in query.minus_words : Posted(w, d)}
        document_to_relevance ==
            [d \in hit \ erased |->
                SumTermRelevance({w \in query.plus_words : Posted(w, d)}, d)]
        order == AscendingIds(DOMAIN document_to_relevance)
    IN [i \in DOMAIN order |->
           [id |-> order[i], relevance |-> document_to_relevance[order[i]],
            rating |-> documents_[order[i]].rating]]

Abs(x) == IF x < 0 THEN -x ELSE x

\* DocumentLess without the rating tie-break
DocumentLessByRelevanceOnly(lhs, rhs) == lhs.relevance > rhs.relevance

\* the comparator handed to sort
DocumentLess(lhs, rhs) ==
    IF Abs(lhs.relevance - rhs.relevance) < EPSILON
    THEN lhs.rating > rhs.rating
    ELSE lhs.relevance > rhs.relevance

\* std::sort requires its comparator to be a strict weak ordering of the elements
IsStrictWeakOrdering(S) ==
    LET equiv(a, b) == ~DocumentLess(a, b) /\ ~DocumentLess(b, a) IN
    /\ \A a \in S : ~DocumentLess(a, a)
    /\ \A a, b, c \in S : DocumentLess(a, b) /\ DocumentLess(b, c) => DocumentLess(a, c)
    /\ \A a, b, c \in S : equiv(a, b) /\ equiv(b, c) => equiv(a, c)

\* every order of S in which no element is preceded by one it must precede
RECURSIVE SortedOrders(_)
SortedOrders(S) ==
    IF S = {} THEN {<<>>}
    ELSE UNION {{<<m>> \o t : t \in SortedOrders(S \ {m})} :
                   m \in {x \in S : \A y \in S : ~DocumentLess(y, x)}}

RECURSIVE AllOrders(_)
AllOrders(S) ==
    IF S = {} THEN {<<>>}
    ELSE UNION {{<<m>> \o t : t \in AllOrders(S \ {m})} : m \in S}

\* what sort(result.begin(), result.end(), comparator) can leave in result: sort is
\* not stable, and is undefined when the comparator is no strict weak ordering
SortOutcomes(result) ==
    LET S == {result[i] : i \in DOMAIN result} IN
    IF IsStrictWeakOrdering(S) THEN SortedOrders(S) ELSE AllOrders(S)

\* Resize without the resize
ResizeNever(result) == result

\* if (result.size() > MAX_RESULT_DOCUMENT_COUNT) result.resize(MAX_RESULT_DOCUMENT_COUNT);
Resize(result) ==
    IF Len(result) > MAX_RESULT_DOCUMENT_COUNT
    THEN SubSeq(result, 1, MAX_RESULT_DOCUMENT_COUNT)
    ELSE result

\* the message of the exception FindTopDocuments throws, "" when it throws none
FindTopDocumentsError(raw_query) ==
    IF ~IsValidWord(raw_query) THEN "Invalid requests text"
    ELSE IF raw_query = <<>> THEN "Raw query is empty"
    ELSE IF ParseQuery(raw_query).threw THEN "Invalid word try to request"
    ELSE ""

\* sort runs the same steps on the same range: given the range it was given by the
\* call before, it leaves the order it left then (when the comparator is no strict
\* weak ordering nothing is promised, not even that)
SortOutcomesAfter(prev, result) ==
    IF /\ prev.op = "FindTopDocuments" /\ prev.error = ""
       /\ prev.found = result
       /\ IsStrictWeakOrdering({result[i] : i \in DOMAIN result})
    THEN {prev.sorted}
    ELSE SortOutcomes(result)

FindTopDocuments(raw_query, document_predicate) ==
    LET err == FindTopDocumentsError(raw_query)
        query == ParseQuery(raw_query).query
        call == [Blank EXCEPT !.op = "FindTopDocuments", !.text = raw_query,
                              !.pred = document_predicate, !.error = err]
    IN /\ UNCHANGED <<index, succ>>
       /\ IF err # "" THEN last' = call
          ELSE IF IsStopOnlyQuery(query)
               THEN last' = [call EXCEPT !.parsed = TRUE, !.query = query]
               ELSE LET result == FindAllDocuments(query, document_predicate) IN
                    \E sorted \in SortOutcomesAfter(last, result) :
                       last' = [call EXCEPT !.parsed = TRUE, !.query = query,
                                            !.found = result, !.sorted = sorted,
                                            !.docs = Resize(sorted)]

FindTopDocumentsByStatus(raw_query, status) ==
    FindTopDocuments(raw_query, [kind |-> "status_eq", status |-> status, n |-> 0])

FindTopDocumentsDefault(raw_query) == FindTopDocumentsByStatus(raw_query, "ACTUAL")

\* ----------------------------------------------------------------- matching

\* operator< of std::string
RECURSIVE StringLess(_, _)
StringLess(a, b) ==
    IF b = <<>> THEN FALSE
    ELSE IF a = <<>> THEN TRUE
    ELSE IF Head(a) # Head(b) THEN Head(a) < Head(b)
    ELSE StringLess(Tail(a), Tail(b))

\* the iteration order of a set<string>
RECURSIVE AscendingWords(_)
AscendingWords(S) ==
    IF S = {} THEN <<>>
    ELSE LET m == CHOOSE x \in S : \A y \in S \ {x} : StringLess(x, y)
         IN <<m>> \o AscendingWords(S \ {m})

\* MatchedWords without matched_words.clear() (line 198)
MatchedWordsNeverCleared(query, document_id) ==
    SelectSeq(AscendingWords(query.plus_words), LAMBDA w : Posted(w, document_id))

\* MatchedWords taking a plus word that the index holds for any document
\* (count(word) alone, without the test of line 189)
MatchedWordsOfAnyDocument(query, document_id) ==
    LET matched_words == SelectSeq(AscendingWords(query.plus_words),
                                   LAMBDA w : w \in DOMAIN word_to_document_freqs_)
    IN IF \E w \in query.minus_words : Posted(w, document_id)
       THEN <<>>
       ELSE matched_words

\* matched_words as MatchDocument leaves it after its two loops
MatchedWords(query, document_id) ==
    LET matched_words == SelectSeq(AscendingWords(query.plus_words),
                                   LAMBDA w : Posted(w, document_id))
    IN IF \E w \in query.minus_words : Posted(w, document_id)
       THEN <<>>
       ELSE matched_words

\* the message of the exception MatchDocument throws, "" when it throws none
MatchDocumentError(raw_query, document_id) ==
    IF document_id \notin DOMAIN documents_ THEN "Wrong document ID (it has no exist)"
    ELSE IF ParseQuery(raw_query).threw THEN "Invalid word try to request"
    ELSE ""

\* MatchedStatus with the default status returned for every query
MatchedStatusAlwaysDefault(query, document_id) == "ACTUAL"

\* the status MatchDocument returns
MatchedStatus(query, document_id) ==
    IF IsStopOnlyQuery(query) THEN "ACTUAL" ELSE documents_[document_id].status

\* MatchDocument looking a plus word up with word_to_document_freqs_[word], which
\* inserts an empty row for a word the index does not hold
MatchDocumentInsertingAbsentWords(raw_query, document_id) ==
    LET err == MatchDocumentError(raw_query, document_id)
        query == ParseQuery(raw_query).query
        call == [Blank EXCEPT !.op = "MatchDocument", !.text = raw_query,
                              !.id = document_id, !.error = err]
        looked == IF err # "" \/ IsStopOnlyQuery(query) THEN {} ELSE query.plus_words
    IN /\ UNCHANGED <<stop_words_, documents_, ids_, succ>>
       /\ word_to_document_freqs_' =
              [w \in DOMAIN word_to_document_freqs_ \cup looked |->
                  IF w \in DOMAIN word_to_document_freqs_
                  THEN word_to_document_freqs_[w] ELSE EmptyMap]
       /\ last' = IF err # "" THEN call
                  ELSE IF IsStopOnlyQuery(query)
                       THEN [call EXCEPT !.parsed = TRUE, !.query = query,
                                         !.words = <<>>,
                                         !.rstatus = MatchedStatus(query, document_id)]
                       ELSE [call EXCEPT !.parsed = TRUE, !.query = query,
                                         !.words = MatchedWords(query, document_id),
                                         !.rstatus = MatchedStatus(query, document_id)]

MatchDocument(raw_query, document_id) ==
    LET err == MatchDocumentError(raw_query, document_id)
        query == ParseQuery(raw_query).query
        call == [Blank EXCEPT !.op = "MatchDocument", !.text = raw_query,
                              !.id = document_id, !.error = err]
    IN /\ UNCHANGED <<index, succ>>
       /\ last' = IF err # "" THEN call
                  ELSE IF IsStopOnlyQuery(query)
                       THEN [call EXCEPT !.parsed = TRUE, !.query = query,
                                         !.words = <<>>,
                                         !.rstatus = MatchedStatus(query, document_id)]
                       ELSE [call EXCEPT !.parsed = TRUE, !.query = query,
                                         !.words = MatchedWords(query, document_id),
                                         !.rstatus = MatchedStatus(query, document_id)]

\* ------------------------------------------------------------------- inputs
\* chars: 97 'a', 98 'b', 99 'c', 32 ' ', 45 '-', 2 '\x02'

\* texts handed to the constructor: " c  c" and "c \x02"
StopWordTexts == {<<32, 99, 32, 32, 99>>, <<99, 32, 2>>}

\* documents the caller of Spec ingests
\*   " a  a" | "b c a" | "c" | "" | "b \x02"
Documents ==
    {[text |-> <<32, 97, 32, 32, 97>>, status |-> "ACTUAL", ratings |-> <<>>],
     [text |-> <<98, 32, 99, 32, 97>>, status |-> "BANNED", ratings |-> <<-2, -1>>],
     [text |-> <<99>>, status |-> "IRRELEVANT", ratings |-> <<4, 3>>],
     [text |-> <<>>, status |-> "BANNED", ratings |-> <<5>>],
     [text |-> <<98, 32, 2>>, status |-> "ACTUAL", ratings |-> <<5>>]}

Ids == -1 .. MaxId

\* queries of Spec
\*   "a -b" | "c -c" | "a -a" | "b  a c b" | "--a" | "a -" | "a \x02"
Queries ==
    {<<97, 32, 45, 98>>, <<99, 32, 45, 99>>, <<97, 32, 45, 97>>,
     <<98, 32, 32, 97, 32, 99, 32, 98>>, <<45, 45, 97>>, <<97, 32, 45>>, <<97, 32, 2>>}

Statuses == {"BANNED"}

Predicates == {[kind |-> "id_gt", status |-> "", n |-> 0]}

\* documents the caller of SpecTop ingests, by id: "a" | "a b" | "b", rated id / 2
TopDocuments ==
    {[id |-> i, text |-> t.text, status |-> t.status, ratings |-> <<i \div 2>>] :
        i \in 0 .. MaxTopDocs - 1,
        t \in {[text |-> <<97>>, status |-> "ACTUAL"],
               [text |-> <<97, 32, 98>>, status |-> "BANNED"],
               [text |-> <<98>>, status |-> "ACTUAL"]}}

\* queries of SpecTop: "a" | "a b" | "b -a" | "-a -b" | "c" | "" | "a --b"
TopQueries ==
    {<<97>>, <<97, 32, 98>>, <<98, 32, 45, 97>>, <<45, 97, 32, 45, 98>>, <<99>>,
     <<>>, <<97, 32, 45, 45, 98>>}

TopPredicates == {[kind |-> "rating_ge", status |-> "", n |-> 0]}

\* tokens of the queries of SpecParse: "a" | "-b" | "-" | "--a" | "b\x02"
QueryTokens == {<<97>>, <<45, 98>>, <<45>>, <<45, 45, 97>>, <<98, 2>>}

\* the words with one space between each two
RECURSIVE JoinWords(_)
JoinWords(words) ==
    IF Len(words) = 1 THEN words[1]
    ELSE words[1] \o <<SPACE>> \o JoinWords(Tail(words))

\* queries of SpecParse: every sequence of 1 .. MaxTokens tokens
ParseQueries ==
    {JoinWords(ws) : ws \in UNION {[1 .. n -> QueryTokens] : n \in 1 .. MaxTokens}}

\* the document the caller of SpecParse ingests: "b c a"
ParseDocuments == {d \in Documents : d.status = "BANNED" /\ d.text # <<>>}

\* ------------------------------------------------------------ specification

Init ==
    /\ \E t \in StopWordTexts :
          /\ ~ConstructorThrows(SplitIntoWords(t))
          /\ stop_words_ = MakeUniqueNonEmptyStrings(SplitIntoWords(t))
    /\ word_to_document_freqs_ = EmptyMap
    /\ documents_ = EmptyMap
    /\ ids_ = <<>>
    /\ last = [Blank EXCEPT !.op = "SearchServer"]
    /\ succ = <<>>

Next ==
    \/ \E id \in Ids, d \in Documents : AddDocument(id, d.text, d.status, d.ratings)
    \/ \E q \in Queries, p \in Predicates : FindTopDocuments(q, p)
    \/ \E q \in Queries, s \in Statuses : FindTopDocumentsByStatus(q, s)
    \/ \E q \in Queries : FindTopDocumentsDefault(q)
    \/ \E q \in Queries, id \in Ids : MatchDocument(q, id)
    \/ \E i \in -1 .. MaxId + 1 : GetDocumentId(i)
    \/ CallGetDocumentCount

Spec == Init /\ [][Next]_vars

\* a caller that numbers its documents 0, 1, 2, ... and ranks them
NextTop ==
    \/ \E d \in TopDocuments :
          /\ d.id = GetDocumentCount
          /\ AddDocument(d.id, d.text, d.status, d.ratings)
    \/ \E q \in TopQueries, p \in TopPredicates : FindTopDocuments(q, p)
    \/ \E q \in TopQueries : FindTopDocumentsDefault(q)

SpecTop == Init /\ [][NextTop]_vars

\* a caller that ingests document 0 and puts queries of every shape
NextParse ==
    \/ \E d \in ParseDocuments : AddDocument(0, d.text, d.status, d.ratings)
    \/ \E q \in ParseQueries : FindTopDocumentsDefault(q)
    \/ \E q \in ParseQueries : MatchDocument(q, 0)

SpecParse == Init /\ [][NextParse]_vars

\* ------------------------------------------------------------------ claims

\* the tokens of a text, and how a query token reads
Tokens(text) == {SplitIntoWords(text)[i] : i \in DOMAIN SplitIntoWords(text)}

HasMinus(token) == token[1] = MINUS

Stripped(token) == IF HasMinus(token) THEN Tail(token) ELSE token

HasControlChar(text) == \E i \in DOMAIN text : text[i] >= 0 /\ text[i] < SPACE

RequiredTerms(text) ==
    {Stripped(t) : t \in {u \in Tokens(text) : ~HasMinus(u) /\ Stripped(u) \notin stop_words_}}

ForbiddenTerms(text) ==
    {Stripped(t) : t \in {u \in Tokens(text) : HasMinus(u) /\ Stripped(u) \notin stop_words_}}

Returned(op) == last.op = op /\ last.error = ""

ReturnedIds == {last.docs[i].id : i \in DOMAIN last.docs}

\* C1: an AddDocument call that fails (id already indexed, negative id, or a token
\* with a control character) leaves the document map, the insertion-order id
\* sequence, the term postings and the document count exactly as they were.
C1_FailedAddLeavesIndexUnchanged ==
    [][(last'.op = "AddDocument" /\ last'.error # "") =>
          /\ documents_' = documents_
          /\ ids_' = ids_
          /\ word_to_document_freqs_' = word_to_document_freqs_
          /\ GetDocumentCount' = GetDocumentCount]_vars

\* a non-empty index has just refused a text whose bad token follows a good one
C1_Witness ==
    /\ last.op = "AddDocument"
    /\ last.error = "Invalid word try to add"
    /\ Len(SplitIntoWords(last.text)) > 1
    /\ ~HasControlChar(SplitIntoWords(last.text)[1])
    /\ last.id \notin DOMAIN documents_
    /\ documents_ # EmptyMap

\* C2: AddDocument succeeds exactly when the id is not negative, the id is not
\* indexed yet and no character of the text is a control character; when it
\* succeeds the document is recorded with its status and average rating, and a text
\* with no token other than stop words adds no posting.
C2_AddSucceedsIff ==
    [][last'.op = "AddDocument" =>
          LET id == last'.id
              text == last'.text
              fine == id >= 0 /\ id \notin DOMAIN documents_ /\ ~HasControlChar(text)
          IN /\ (last'.error = "") <=> fine
             /\ last'.error = "" =>
                   /\ id \in DOMAIN documents_'
                   /\ documents_'[id].status = last'.status
                   /\ documents_'[id].rating = ComputeAverageRating(last'.ratings)
                   /\ (Tokens(text) \subseteq stop_words_ =>
                          word_to_document_freqs_' = word_to_document_freqs_)]_vars

\* a text made of stop words only has just been ingested
C2_Witness ==
    /\ Returned("AddDocument")
    /\ Tokens(last.text) # {}
    /\ Tokens(last.text) \subseteq stop_words_
    /\ last.id \in DOMAIN documents_
    /\ documents_[last.id].status = last.status
    /\ \A w \in DOMAIN word_to_document_freqs_ :
          last.id \notin DOMAIN word_to_document_freqs_[w]

\* C3: no document returned by FindTopDocuments has a forbidden term of the query
\* in its postings, and a query without required terms returns nothing.
C3_NoForbiddenTermInResult ==
    Returned("FindTopDocuments") =>
        /\ \A d \in ReturnedIds : \A w \in ForbiddenTerms(last.text) : ~Posted(w, d)
        /\ RequiredTerms(last.text) = {} => last.docs = <<>>

\* a result that lacks a document which holds a required and a forbidden term and
\* passes the predicate
C3_Witness ==
    /\ Returned("FindTopDocuments")
    /\ last.docs # <<>>
    /\ \E d \in DOMAIN documents_ :
          /\ Holds(last.pred, d, documents_[d].status, documents_[d].rating)
          /\ \E w \in RequiredTerms(last.text) : Posted(w, d)
          /\ \E w \in ForbiddenTerms(last.text) : Posted(w, d)
          /\ d \notin ReturnedIds

\* C4: MatchDocument returns no matched word when a forbidden term of the query is
\* in the document's postings, whatever required terms the document holds.
C4_MatchEmptyOnForbiddenTerm ==
    (/\ Returned("MatchDocument")
     /\ \E w \in ForbiddenTerms(last.text) : Posted(w, last.id))
        => last.words = <<>>

\* the document holds a required term and a forbidden term
C4_Witness ==
    /\ Returned("MatchDocument")
    /\ \E w \in ForbiddenTerms(last.text) : Posted(w, last.id)
    /\ \E w \in RequiredTerms(last.text) : Posted(w, last.id)
    /\ last.words = <<>>

\* a query whose tokens all read as stop words, with or without a leading '-'
StopWordsOnly(text) ==
    /\ Tokens(text) # {}
    /\ \A t \in Tokens(text) : Stripped(t) \in stop_words_

\* C5 as claimed: MatchDocument returns the stored status of the document for
\* every query that parses.
C5_MatchReturnsStoredStatus ==
    Returned("MatchDocument") => last.rstatus = documents_[last.id].status

\* C5: MatchDocument returns the stored status of the document for every query
\* that parses, except a query of stop words only, for which it returns ACTUAL.
C5_MatchStatusAmended ==
    Returned("MatchDocument") =>
        last.rstatus = IF StopWordsOnly(last.text) THEN "ACTUAL"
                       ELSE documents_[last.id].status

\* a document that is not ACTUAL has been matched and its status returned
C5_Witness ==
    /\ Returned("MatchDocument")
    /\ ~StopWordsOnly(last.text)
    /\ documents_[last.id].status # "ACTUAL"
    /\ last.rstatus = documents_[last.id].status

\* the three sets a parsed query must hold, token by token
ExpectedQuery(text) ==
    [plus_words |-> RequiredTerms(text),
     minus_words |-> ForbiddenTerms(text),
     stop_words |-> {t \in Tokens(text) : Stripped(t) \in stop_words_}]

Parsed == last.op \in {"FindTopDocuments", "MatchDocument"} /\ last.parsed

\* C6 as claimed: the three sets of a parsed query are pairwise disjoint and every
\* token goes to exactly one of them.
C6_QuerySetsDisjoint ==
    Parsed =>
        /\ last.query = ExpectedQuery(last.text)
        /\ last.query.plus_words \cap last.query.minus_words = {}
        /\ last.query.plus_words \cap last.query.stop_words = {}
        /\ last.query.minus_words \cap last.query.stop_words = {}

\* C6: every token of a parsed query goes to exactly one of the three sets, and the
\* stop-word set is disjoint from the required and the forbidden set (which may
\* share a term).
C6_QuerySetsAmended ==
    Parsed =>
        /\ last.query = ExpectedQuery(last.text)
        /\ last.query.plus_words \cap last.query.stop_words = {}
        /\ last.query.minus_words \cap last.query.stop_words = {}

\* a parsed query with required terms and a stop word
C6_Witness ==
    /\ Parsed
    /\ last.query.plus_words # {}
    /\ last.query.stop_words # {}

\* C7: GetDocumentCount is the number of AddDocument calls that succeeded, each
\* successful call raising it by one and each failed call by nothing;
\* GetDocumentId(k) is the id of the (k+1)-th successful call for 0 <= k < n and
\* fails with out_of_range for any other k.
C7_CountAndIdAt ==
    /\ [](/\ last.op = "GetDocumentCount" => last.value = Len(succ)
          /\ last.op = "GetDocumentId" =>
                IF last.id >= 0 /\ last.id < Len(succ)
                THEN last.error = "" /\ last.value = succ[last.id + 1]
                ELSE last.error = "Wrong index of document")
    /\ [][last'.op = "AddDocument" =>
             GetDocumentCount' =
                 GetDocumentCount + (IF last'.error = "" THEN 1 ELSE 0)]_vars

\* the second document ingested has the smaller id, and GetDocumentId(1) returned it
C7_Witness ==
    /\ Returned("GetDocumentId")
    /\ last.id = 1
    /\ Len(succ) = 2
    /\ succ[2] < succ[1]
    /\ last.value = succ[2]

\* the documents a query asks for: a required term, no forbidden term, the predicate
Candidates(text, pred) ==
    {d \in DOMAIN documents_ :
        /\ \E w \in RequiredTerms(text) : Posted(w, d)
        /\ ~ \E w \in ForbiddenTerms(text) : Posted(w, d)
        /\ Holds(pred, d, documents_[d].status, documents_[d].rating)}

Min(a, b) == IF a < b THEN a ELSE b

\* C8: FindTopDocuments returns min(5, |C|) entries, each a distinct document of C,
\* the indexed documents that hold a required term of the query, hold no forbidden
\* term and pass the predicate.
C8_ResultIsBoundedCandidateSet ==
    Returned("FindTopDocuments") =>
        LET C == Candidates(last.text, last.pred) IN
        /\ Len(last.docs) = Min(5, Cardinality(C))
        /\ Cardinality(ReturnedIds) = Len(last.docs)
        /\ ReturnedIds \subseteq C
        /\ Len(last.docs) <= 5

\* six documents qualify and five are returned, for a query with a term no document holds
C8_Witness ==
    /\ Returned("FindTopDocuments")
    /\ Cardinality(Candidates(last.text, last.pred)) > 5
    /\ Len(last.docs) = 5
    /\ \E w \in RequiredTerms(last.text) : w \notin DOMAIN word_to_document_freqs_

\* a must come before b: higher relevance, or higher rating within EPSILON
Precedes(a, b) ==
    IF Abs(a.relevance - b.relevance) < EPSILON
    THEN a.rating > b.rating
    ELSE a.relevance > b.relevance

C10_StopWordsOnlyQueryIsEmpty ==
    (/\ last.op \in {"FindTopDocuments", "MatchDocument"}
     /\ StopWordsOnly(last.text)
     /\ last.op = "MatchDocument" => last.id \in DOMAIN documents_)
        => /\ last.error = ""
           /\ last.docs = <<>>
           /\ last.words = <<>>

\* a query of stop words, one of them with '-', has been run on a non-empty index
C10_Witness ==
    /\ Returned("FindTopDocuments")
    /\ StopWordsOnly(last.text)
    /\ \E t \in Tokens(last.text) : HasMinus(t)
    /\ word_to_document_freqs_ # EmptyMap
    /\ last.docs = <<>>

QueryOps == {"FindTopDocuments", "MatchDocument", "GetDocumentCount", "GetDocumentId"}

BadToken(token) ==
    \/ Stripped(token) = <<>>
    \/ Stripped(token)[1] = MINUS
    \/ HasControlChar(Stripped(token))

HasBadToken(text) == \E t \in Tokens(text) : BadToken(t)

QueryOfIndexed ==
    \/ last.op = "FindTopDocuments"
    \/ last.op = "MatchDocument" /\ last.id \in DOMAIN documents_

NoResult ==
    /\ ~last.parsed
    /\ last.docs = <<>>
    /\ last.words = <<>>
    /\ last.rstatus = ""

\* C12 as claimed: FindTopDocuments and MatchDocument of an indexed document throw
\* the invalid-query-term error and return nothing whenever a token of the query is
\* a bare '-', a '--term' or holds a control character, wherever the token stands
\* and whatever the other tokens are.
C12_BadTokenIsInvalidQueryTerm ==
    (QueryOfIndexed /\ HasBadToken(last.text)) =>
        /\ last.error = "Invalid word try to request"
        /\ NoResult

\* C12: FindTopDocuments and MatchDocument of an indexed document throw and return
\* nothing whenever a token of the query is a bare '-', a '--term' or holds a control
\* character, wherever the token stands and whatever the other tokens are; the error
\* is the invalid-query-term error, except that FindTopDocuments refuses a query
\* holding a control character as an invalid query text, before it parses it.
C12_BadTokenFailsAmended ==
    (QueryOfIndexed /\ HasBadToken(last.text)) =>
        /\ last.error = IF last.op = "FindTopDocuments" /\ HasControlChar(last.text)
                        THEN "Invalid requests text"
                        ELSE "Invalid word try to request"
        /\ NoResult

\* MatchDocument of an indexed document has refused a query whose only bad token
\* stands between a required term the document holds and a forbidden one
C12_Witness ==
    /\ last.op = "MatchDocument"
    /\ last.id \in DOMAIN documents_
    /\ last.error = "Invalid word try to request"
    /\ LET ws == SplitIntoWords(last.text) IN
          /\ Len(ws) = 3
          /\ ~BadToken(ws[1]) /\ ~HasMinus(ws[1]) /\ Posted(ws[1], last.id)
          /\ BadToken(ws[2])
          /\ ~BadToken(ws[3]) /\ HasMinus(ws[3])

\* C13: for an indexed document and a query that parses, none of whose forbidden
\* terms is in the document's postings, MatchDocument returns exactly the required
\* terms of the query that are in the document's postings: each once, no other word,
\* in ascending lexicographic order; a required term the index or the document does
\* not hold is left out without error.
C13_MatchReturnsRequiredTermsPresent ==
    (/\ Returned("MatchDocument")
     /\ ~ \E w \in ForbiddenTerms(last.text) : Posted(w, last.id))
        => LET present == {w \in RequiredTerms(last.text) : Posted(w, last.id)} IN
           /\ {last.words[i] : i \in DOMAIN last.words} = present
           /\ Len(last.words) = Cardinality(present)
           /\ \A i, j \in DOMAIN last.words :
                  i < j => StringLess(last.words[i], last.words[j])

\* a query that names a term twice and its terms out of order has matched two of them
C13_Witness ==
    /\ Returned("MatchDocument")
    /\ LET ws == SplitIntoWords(last.text) IN
          /\ \E i, j \in DOMAIN ws : i < j /\ ws[i] = ws[j] /\ ws[i] \in RequiredTerms(last.text)
          /\ \E i, j \in DOMAIN ws : i < j /\ StringLess(ws[j], ws[i])
                                        /\ {ws[i], ws[j]} \subseteq RequiredTerms(last.text)
    /\ Len(last.words) = 2

\* C14: whatever AddDocument calls have been made, returning or throwing, ids_ has no
\* duplicate, its elements are the keys of documents_ and none is negative; every
\* document id in the postings of a term is a key of documents_; no stop word and no
\* word with a control character is a key of the postings; and every term of the
\* postings has at least one document, so that the divisor of the inverse document
\* frequency is never zero.
C14_IndexConsistent ==
    /\ \A i, j \in DOMAIN ids_ : i # j => ids_[i] # ids_[j]
    /\ {ids_[i] : i \in DOMAIN ids_} = DOMAIN documents_
    /\ \A i \in DOMAIN ids_ : ids_[i] >= 0
    /\ \A w \in DOMAIN word_to_document_freqs_ :
          /\ DOMAIN word_to_document_freqs_[w] \subseteq DOMAIN documents_
          /\ w \notin stop_words_
          /\ ~HasControlChar(w)
          /\ Cardinality(DOMAIN word_to_document_freqs_[w]) > 0

\* two documents indexed out of id order share a term, and a further AddDocument call
\* has just thrown
C14_Witness ==
    /\ last.op = "AddDocument"
    /\ last.error # ""
    /\ Len(ids_) = 2
    /\ ids_[1] > ids_[2]
    /\ \E w \in DOMAIN word_to_document_freqs_ :
          Cardinality(DOMAIN word_to_document_freqs_[w]) = 2

====
